---- MODULE Spec2Model ----
(***************************************************************************)
(* rbp_core: BudgetItem (src/src/budget_item.rs) and BudgetGroup           *)
(* (src/src/budget_group.rs).                                              *)
(*                                                                         *)
(* Two specifications share the variables:                                 *)
(*   Spec      a BudgetGroup driven by add(with_income/with_expense(..))   *)
(*             and remove(idx);                                            *)
(*   SpecItem  two BudgetItems built by the factories, compared with       *)
(*             cmp / partial_cmp / eq, and asked their monthly             *)
(*             contribution.                                               *)
(*                                                                         *)
(* Representation.                                                         *)
(*   String  a sequence of bytes (naturals); String's Ord is the byte-wise *)
(*           lexicographic order, a proper prefix being smaller.           *)
(*   f64     an amount k stands for the f64 value k * 2^-1074 (k times the *)
(*           smallest positive f64).  Every integer multiple of 2^-1074    *)
(*           below 2^-1022 is an f64, so at this scale a quotient is the   *)
(*           exact quotient rounded to the nearest integer, ties to even   *)
(*           (IEEE-754 round-to-nearest-even).  Exact quotients such as    *)
(*           10 / 2 = 5 are the same at every scale.  +0.0 and -0.0 are    *)
(*           both 0.                                                       *)
(*   panic   assert! and Vec::remove panic; the thread unwinds, so a       *)
(*           panicked run takes no further step.                           *)
(*   sort_unstable  the standard library promises a sorted permutation and *)
(*           leaves the order of equal elements open; every sorted         *)
(*           permutation is a possible outcome.                            *)
(***************************************************************************)
EXTENDS Integers, Sequences, FiniteSets, TLC

VARIABLES
    name,     \* BudgetGroup.name
    items,    \* BudgetGroup.items
    op,       \* the last call made on the group, with its arguments
    res,      \* its outcome: "None" (no call yet), "Ok", "Err", "Panic"
    lhs,      \* SpecItem: first item built (<<>> or <<item>>)
    rhs,      \* SpecItem: second item built (<<>> or <<item>>)
    iop,      \* SpecItem: the last factory call, with its arguments
    ires,     \* SpecItem: its outcome: "None", "Ok", "Panic"
    ord,      \* SpecItem: <<>> or <<results of comparing lhs with rhs>>
    contrib   \* SpecItem: <<>> or <<lhs.monthly_contribution()>>

vars == <<name, items, op, res, lhs, rhs, iop, ires, ord, contrib>>
groupVars == <<name, items, op, res>>
itemVars == <<lhs, rhs, iop, ires, ord, contrib>>

----------------------------------------------------------------------------
(* Bounds and input samples *)

MaxItems == 3
MaxAmount == 3

\* amounts handed to the factories: negative, zero and positive
Amounts == (0 - 1) .. MaxAmount

\* names handed to the factories in SpecItem: empty, a prefix, differing bytes
Names == {<<>>, <<1>>, <<1, 2>>, <<2>>}

\* names, amounts and periods handed to the factories in Spec
GroupItemNames == {<<1>>, <<1, 2>>}
GroupAmounts == {0 - 1, 0, 1, 2}
GroupPeriods == {"Every1Month", "Every3Months"}

\* the name a group is created with: "foo"
GroupNames == {<<102, 111, 111>>}

----------------------------------------------------------------------------
(* budget_item.rs *)

Period == {"Every1Month", "Every2Months", "Every3Months", "Every6Months", "Every12Months"}

Type == {"Income", "Expense"}

\* #[derive(Ord)] on Period: the variants compare by declaration order
PeriodDiscriminant(p) ==
    CASE p = "Every1Month" -> 0
      [] p = "Every2Months" -> 1
      [] p = "Every3Months" -> 2
      [] p = "Every6Months" -> 3
      [] p = "Every12Months" -> 4

\* #[derive(Ord)] on Type: Income is declared before Expense
TypeDiscriminant(t) ==
    CASE t = "Income" -> 0
      [] t = "Expense" -> 1

\* Ordering of two integers
IntCmp(x, y) == IF x < y THEN "Less" ELSE IF x > y THEN "Greater" ELSE "Equal"

\* <String as Ord>::cmp: compare the bytes of the common prefix, then the lengths
RECURSIVE StrCmpFrom(_, _, _)
StrCmpFrom(s, t, i) ==
    IF i > Len(s) \/ i > Len(t)
    THEN IntCmp(Len(s), Len(t))
    ELSE IF s[i] # t[i] THEN IntCmp(s[i], t[i])
    ELSE StrCmpFrom(s, t, i + 1)

StrCmp(s, t) == StrCmpFrom(s, t, 1)

\* f64 division x / d for x >= 0, d > 0, in units of 2^-1074: round to nearest, ties to even
F64Div(x, d) ==
    LET q == x \div d
        r == x % d
    IN  IF 2 * r < d THEN q
        ELSE IF 2 * r > d THEN q + 1
        ELSE IF q % 2 = 0 THEN q ELSE q + 1

check_amount_AcceptZero(amount) == amount >= 0

\* assert!(*amount > 0.0): TRUE when the assertion passes, FALSE when it panics
check_amount(amount) == amount > 0

with_income(n, amount, period) ==
    IF ~check_amount(amount)
    THEN [panic |-> TRUE]
    ELSE [panic |-> FALSE,
          item |-> [name |-> n, period |-> period, item_type |-> "Income", amount |-> amount]]

with_expense(n, amount, period) ==
    IF ~check_amount(amount)
    THEN [panic |-> TRUE]
    ELSE [panic |-> FALSE,
          item |-> [name |-> n, period |-> period, item_type |-> "Expense", amount |-> amount]]

\* the factory selected by ty
Construct(ty, n, amount, period) ==
    IF ty = "Income" THEN with_income(n, amount, period) ELSE with_expense(n, amount, period)

monthly_contribution(self) ==
    LET num == CASE self.period = "Every1Month" -> self.amount
                 [] self.period = "Every2Months" -> F64Div(self.amount, 2)
                 [] self.period = "Every3Months" -> F64Div(self.amount, 3)
                 [] self.period = "Every6Months" -> F64Div(self.amount, 6)
                 [] self.period = "Every12Months" -> F64Div(self.amount, 12)
    IN  CASE self.item_type = "Income" -> num
          [] self.item_type = "Expense" -> 0 - num

partial_cmp_NameOnly(self, other) ==
    [some |-> TRUE, ord |-> StrCmp(self.name, other.name)]

\* impl PartialOrd for BudgetItem; String, Period and Type always give Some
partial_cmp(self, other) ==
    LET name_cmp == StrCmp(self.name, other.name)
        period_cmp == IntCmp(PeriodDiscriminant(self.period), PeriodDiscriminant(other.period))
    IN  IF name_cmp # "Equal" THEN [some |-> TRUE, ord |-> name_cmp]
        ELSE IF period_cmp # "Equal" THEN [some |-> TRUE, ord |-> period_cmp]
        ELSE [some |-> TRUE,
              ord |-> IntCmp(TypeDiscriminant(self.item_type), TypeDiscriminant(other.item_type))]

cmp_NoType(self, other) ==
    LET name_cmp == StrCmp(self.name, other.name)
    IN  IF name_cmp # "Equal" THEN name_cmp
        ELSE IntCmp(PeriodDiscriminant(self.period), PeriodDiscriminant(other.period))

\* impl Ord for BudgetItem
cmp(self, other) ==
    LET name_cmp == StrCmp(self.name, other.name)
        period_cmp == IntCmp(PeriodDiscriminant(self.period), PeriodDiscriminant(other.period))
    IN  IF name_cmp # "Equal" THEN name_cmp
        ELSE IF period_cmp # "Equal" THEN period_cmp
        ELSE IntCmp(TypeDiscriminant(self.item_type), TypeDiscriminant(other.item_type))

eq_WithAmount(self, other) ==
    /\ self.name = other.name
    /\ self.period = other.period
    /\ self.item_type = other.item_type
    /\ self.amount = other.amount

\* impl PartialEq for BudgetItem
eq(self, other) ==
    /\ self.name = other.name
    /\ self.period = other.period
    /\ self.item_type = other.item_type

----------------------------------------------------------------------------
(* budget_group.rs *)

\* no element is greater than its successor under BudgetItem's Ord
IsSorted(s) == \A i \in 1 .. (Len(s) - 1) : cmp(s[i], s[i + 1]) # "Greater"

\* the rearrangements of s
Rearrangements(s) ==
    {[i \in 1 .. Len(s) |-> s[p[i]]] : p \in Permutations(1 .. Len(s))}

\* slice::sort_unstable: the outcomes it may produce for s
sort_unstable(s) ==
    IF Len(s) = 0 THEN {s}
    ELSE {t \in Rearrangements(s) : IsSorted(t)}

\* Vec::remove(idx) for idx < len: the later elements shift left
Vec_remove(s, idx) ==
    [i \in 1 .. (Len(s) - 1) |-> IF i <= idx THEN s[i] ELSE s[i + 1]]

\* BudgetGroup::new
new(n) == [name |-> n, items |-> <<>>]

\* BudgetGroup::enumerate: (index, item) pairs, indices from 0
enumerate(self) == [i \in 1 .. Len(self.items) |-> <<i - 1, self.items[i]>>]

add_RejectDuplicate(self, item) ==
    IF \E i \in DOMAIN self.items : eq(self.items[i], item)
    THEN {self}
    ELSE {[name |-> self.name, items |-> t] : t \in sort_unstable(Append(self.items, item))}

add_NoSort(self, item) ==
    {[name |-> self.name, items |-> Append(self.items, item)]}

\* BudgetGroup::add: the groups the call may leave behind
add(self, item) ==
    {[name |-> self.name, items |-> t] : t \in sort_unstable(Append(self.items, item))}

remove_NoRangeCheck(self, idx) ==
    IF idx >= Len(self.items)
    THEN [res |-> "Err",
          out |-> {[name |-> self.name,
                    items |-> SubSeq(self.items, 1, Len(self.items) - 1)]}]
    ELSE [res |-> "Ok",
          out |-> {[name |-> self.name, items |-> t] :
                       t \in sort_unstable(Vec_remove(self.items, idx))}]

remove_WrongIndex(self, idx) ==
    IF idx > Len(self.items)
    THEN [res |-> "Err", out |-> {self}]
    ELSE IF idx >= Len(self.items)
    THEN [res |-> "Panic", out |-> {self}]
    ELSE [res |-> "Ok",
          out |-> {[name |-> self.name, items |-> t] :
                       t \in sort_unstable(Vec_remove(self.items, 0))}]

\* BudgetGroup::remove: the result and the groups the call may leave behind.
\* idx = len passes the range check and Vec::remove panics on it, before it
\* changes the vector.
remove(self, idx) ==
    IF idx > Len(self.items)
    THEN [res |-> "Err", out |-> {self}]
    ELSE IF idx >= Len(self.items)
    THEN [res |-> "Panic", out |-> {self}]
    ELSE [res |-> "Ok",
          out |-> {[name |-> self.name, items |-> t] :
                       t \in sort_unstable(Vec_remove(self.items, idx))}]

----------------------------------------------------------------------------
(* State machine *)

NoOp == [kind |-> "none"]

Init ==
    /\ name \in GroupNames
    /\ items = new(name).items
    /\ op = NoOp
    /\ res = "None"
    /\ lhs = <<>>
    /\ rhs = <<>>
    /\ iop = NoOp
    /\ ires = "None"
    /\ ord = <<>>
    /\ contrib = <<>>

\* the BudgetGroup value held in the variables
group == [name |-> name, items |-> items]

\* group.add(BudgetItem::with_income(n, amount, period)), or with_expense
Add(ty, n, amount, period) ==
    /\ res # "Panic"
    /\ Len(items) < MaxItems
    /\ op' = [kind |-> "add", ty |-> ty, name |-> n, amount |-> amount, period |-> period]
    /\ LET made == Construct(ty, n, amount, period)
       IN  IF made.panic
           THEN /\ res' = "Panic"
                /\ UNCHANGED <<name, items>>
           ELSE /\ res' = "Ok"
                /\ \E g \in add(group, made.item) :
                       /\ name' = g.name
                       /\ items' = g.items
    /\ UNCHANGED itemVars

\* group.remove(idx)
Remove(idx) ==
    /\ res # "Panic"
    /\ op' = [kind |-> "remove", idx |-> idx]
    /\ LET r == remove(group, idx)
       IN  /\ res' = r.res
           /\ \E g \in r.out :
                  /\ name' = g.name
                  /\ items' = g.items
    /\ UNCHANGED itemVars

Next ==
    \/ \E ty \in Type, n \in GroupItemNames, amount \in GroupAmounts, period \in GroupPeriods :
           Add(ty, n, amount, period)
    \/ \E idx \in 0 .. (MaxItems + 1) : Remove(idx)

Spec == Init /\ [][Next]_vars

\* let lhs = BudgetItem::with_income(n, amount, period), or with_expense
MakeLhs(ty, n, amount, period) ==
    /\ ires # "Panic"
    /\ lhs = <<>>
    /\ iop' = [kind |-> "lhs", ty |-> ty, name |-> n, amount |-> amount, period |-> period]
    /\ LET made == Construct(ty, n, amount, period)
       IN  IF made.panic
           THEN ires' = "Panic" /\ UNCHANGED lhs
           ELSE ires' = "Ok" /\ lhs' = <<made.item>>
    /\ UNCHANGED <<rhs, ord, contrib>>
    /\ UNCHANGED groupVars

\* let rhs = BudgetItem::with_income(n, amount, period), or with_expense
MakeRhs(ty, n, amount, period) ==
    /\ ires # "Panic"
    /\ lhs # <<>>
    /\ rhs = <<>>
    /\ iop' = [kind |-> "rhs", ty |-> ty, name |-> n, amount |-> amount, period |-> period]
    /\ LET made == Construct(ty, n, amount, period)
       IN  IF made.panic
           THEN ires' = "Panic" /\ UNCHANGED rhs
           ELSE ires' = "Ok" /\ rhs' = <<made.item>>
    /\ UNCHANGED <<lhs, ord, contrib>>
    /\ UNCHANGED groupVars

\* lhs.cmp(&rhs), rhs.cmp(&lhs), lhs == rhs, lhs.partial_cmp(&rhs)
Compare ==
    /\ ires # "Panic"
    /\ lhs # <<>>
    /\ rhs # <<>>
    /\ ord = <<>>
    /\ ord' = <<[cmp |-> cmp(lhs[1], rhs[1]),
                 rcmp |-> cmp(rhs[1], lhs[1]),
                 eq |-> eq(lhs[1], rhs[1]),
                 partial |-> partial_cmp(lhs[1], rhs[1])]>>
    /\ UNCHANGED <<lhs, rhs, iop, ires, contrib>>
    /\ UNCHANGED groupVars

\* lhs.monthly_contribution()
Contribution ==
    /\ ires # "Panic"
    /\ lhs # <<>>
    /\ contrib = <<>>
    /\ contrib' = <<monthly_contribution(lhs[1])>>
    /\ UNCHANGED <<lhs, rhs, iop, ires, ord>>
    /\ UNCHANGED groupVars

NextItem ==
    \/ \E ty \in Type, n \in Names, amount \in Amounts, period \in Period :
           MakeLhs(ty, n, amount, period)
    \/ \E ty \in Type, n \in Names, amount \in Amounts, period \in Period :
           MakeRhs(ty, n, amount, period)
    \/ Compare
    \/ Contribution

SpecItem == Init /\ [][NextItem]_vars

----------------------------------------------------------------------------
(* The order and the equality the properties speak of, stated on the key   *)
(* (name, period, kind) without reference to cmp, partial_cmp or eq.       *)

\* the interval length of a period, in months
PeriodMonths(p) ==
    CASE p = "Every1Month" -> 1
      [] p = "Every2Months" -> 2
      [] p = "Every3Months" -> 3
      [] p = "Every6Months" -> 6
      [] p = "Every12Months" -> 12

\* s comes strictly before t byte-wise: after a common prefix of k bytes either
\* s ends and t goes on, or the next byte of s is the smaller
NameLess(s, t) ==
    \E k \in 0 .. Len(s) :
        /\ k <= Len(t)
        /\ \A i \in 1 .. k : s[i] = t[i]
        /\ \/ k = Len(s) /\ k < Len(t)
           \/ k < Len(s) /\ k < Len(t) /\ s[k + 1] < t[k + 1]

KeyEq(x, y) == x.name = y.name /\ x.period = y.period /\ x.item_type = y.item_type

KeyLess(x, y) ==
    \/ NameLess(x.name, y.name)
    \/ /\ x.name = y.name
       /\ PeriodMonths(x.period) < PeriodMonths(y.period)
    \/ /\ x.name = y.name
       /\ x.period = y.period
       /\ x.item_type = "Income"
       /\ y.item_type = "Expense"

KeyLeq(x, y) == KeyLess(x, y) \/ KeyEq(x, y)

\* s without its element at 0-based position idx
DeleteAt(s, idx) == SubSeq(s, 1, idx) \o SubSeq(s, idx + 2, Len(s))

\* the keys of a sequence of items, in order
KeySeq(s) == [i \in DOMAIN s |-> <<s[i].name, s[i].period, s[i].item_type>>]

\* number of positions of s holding x
Count(s, x) == Cardinality({i \in DOMAIN s : s[i] = x})

\* s and t hold the same items (amounts included) the same number of times
SameBag(s, t) ==
    /\ Len(s) = Len(t)
    /\ \A i \in DOMAIN s : Count(s, s[i]) = Count(t, s[i])

\* the item an add call was made for
OpItem(o) == [name |-> o.name, period |-> o.period, item_type |-> o.ty, amount |-> o.amount]

\* every item the factories build from the inputs of SpecItem
ItemUniverse ==
    {[name |-> n, period |-> p, item_type |-> t, amount |-> a] :
        n \in Names, p \in Period, t \in Type, a \in 1 .. MaxAmount}

----------------------------------------------------------------------------
(* Properties *)

\* C1: after any sequence of add and remove calls, successful or failed, the
\* items enumerate() yields are in non-decreasing order on the key (name,
\* period, kind): each item is <= its successor.
C1_EnumerateSorted ==
    \A i \in 1 .. (Len(enumerate(group)) - 1) :
        KeyLeq(enumerate(group)[i][2], enumerate(group)[i + 1][2])

\* C1 witness: an add placed its item in front of two items with greater keys.
C1_Witness ==
    /\ op.kind = "add"
    /\ res = "Ok"
    /\ Len(items) = 3
    /\ KeyEq(OpItem(op), items[1])
    /\ KeyLess(items[1], items[2])
    /\ KeyLess(items[2], items[3])

\* C2: remove(n) on a group of n items fails with the out-of-range error and
\* leaves the n items; on a group of one item remove(0) succeeds.
C2_RemoveAtLengthIsError ==
    [][/\ (op'.kind = "remove" /\ op'.idx = Len(items))
            => (res' = "Err" /\ items' = items)
       /\ (op'.kind = "remove" /\ op'.idx = 0 /\ Len(items) = 1)
            => res' = "Ok"]_vars

\* C3: remove(idx) with idx greater than the number of items returns the
\* error and leaves the items and the group name as they were.
C3_RemoveBeyondLengthIsError ==
    [][(op'.kind = "remove" /\ op'.idx > Len(items))
          => (res' = "Err" /\ items' = items /\ name' = name)]_vars

\* C3 witness: a remove beyond the end of a non-empty group returned the error.
C3_Witness ==
    /\ op.kind = "remove"
    /\ op.idx > Len(items)
    /\ res = "Err"
    /\ Len(items) >= 2

C5_AddInsertsOne ==
    /\ [](res = "None" => Len(enumerate(group)) = 0)
    /\ [][(op'.kind = "add" /\ op'.amount > 0)
            => /\ res' = "Ok"
               /\ Len(items') = Len(items) + 1
               /\ SameBag(items', Append(items, OpItem(op')))
               /\ name' = name]_vars

\* C5 witness: an add of an item the group already held, amount included.
C5_Witness ==
    /\ op.kind = "add"
    /\ res = "Ok"
    /\ Count(items, OpItem(op)) = 2

C7_CmpLexicographicTotal ==
    ord # <<>> =>
        /\ ord[1].cmp = "Less" <=> KeyLess(lhs[1], rhs[1])
        /\ ord[1].cmp = "Equal" <=> KeyEq(lhs[1], rhs[1])
        /\ ord[1].cmp = "Greater" <=> KeyLess(rhs[1], lhs[1])
        /\ Cardinality({k \in 1 .. 3 :
               \/ k = 1 /\ ord[1].cmp = "Less"
               \/ k = 2 /\ ord[1].eq
               \/ k = 3 /\ ord[1].rcmp = "Less"}) = 1
        /\ \A c \in ItemUniverse :
               (ord[1].cmp # "Greater" /\ cmp(rhs[1], c) # "Greater")
                   => cmp(lhs[1], c) # "Greater"

\* C7 witness: two items alike in name and period, the kind deciding against
\* the amounts.
C7_Witness ==
    /\ ord # <<>>
    /\ ord[1].cmp = "Less"
    /\ lhs[1].name = rhs[1].name
    /\ lhs[1].period = rhs[1].period
    /\ lhs[1].amount > rhs[1].amount

\* C8: two items are equal exactly when name, period and kind agree, whatever
\* the amounts; in a group the items equal to one another lie next to each
\* other, no item with another key between them.
C8_EqualityIgnoresAmount ==
    \A i \in DOMAIN items : \A j \in DOMAIN items :
        /\ eq(items[i], items[j]) <=> KeyEq(items[i], items[j])
        /\ (i < j /\ eq(items[i], items[j]))
               => \A k \in i .. j : eq(items[i], items[k])

\* C8 witness: a group holding two equal items of different amounts and an
\* item of another key.
C8_Witness ==
    /\ Len(items) = 3
    /\ \E i \in DOMAIN items : \E j \in DOMAIN items : \E k \in DOMAIN items :
           /\ i < j
           /\ eq(items[i], items[j])
           /\ items[i].amount # items[j].amount
           /\ ~eq(items[i], items[k])

\* C9: a == b exactly when cmp(a, b) is Equal, and partial_cmp(a, b) is
\* Some(cmp(a, b)).
C9_EqCmpConsistent ==
    ord # <<>> =>
        /\ ord[1].eq <=> ord[1].cmp = "Equal"
        /\ ord[1].partial.some
        /\ ord[1].partial.ord = ord[1].cmp

\* C9 witness: two items compared that differ in kind alone.
C9_Witness ==
    /\ ord # <<>>
    /\ lhs[1].name = rhs[1].name
    /\ lhs[1].period = rhs[1].period
    /\ lhs[1].item_type # rhs[1].item_type

\* C10: monthly_contribution() is amount / months for an income and its
\* negation for an expense, so strictly positive for every income and
\* strictly negative for every expense, and leaves the item as it was.
C10_ContributionSigned ==
    contrib # <<>> =>
        /\ lhs[1].item_type = "Income"
               => /\ contrib[1] = F64Div(lhs[1].amount, PeriodMonths(lhs[1].period))
                  /\ contrib[1] > 0
        /\ lhs[1].item_type = "Expense"
               => /\ contrib[1] = 0 - F64Div(lhs[1].amount, PeriodMonths(lhs[1].period))
                  /\ contrib[1] < 0

====
